---- MODULE Spec2Model ----
(***************************************************************************)
(* memSim: a virtual-memory simulator.  A sequence of logical addresses is *)
(* replayed through a TLB (insertion-ordered set of page numbers) and a    *)
(* page table of RAM frames, with FIFO, LRU or OPT page replacement.       *)
(* Indices (slots, sequence positions) are 0-based as in the Rust source;  *)
(* a TLA+ sequence s is read at 0-based index k as s[k + 1].               *)
(***************************************************************************)
EXTENDS Integers, Sequences, FiniteSets, TLC

\* ---------------------------------------------------------------- bounds
MaxLen == 5         \* longest address file explored
MaxFrames == 3      \* largest `frames` argument explored (0..MaxFrames)
MaxTlb == 2         \* largest `tlb_entries` argument explored (0..MaxTlb)
NumPages == 3       \* number of distinct pages the addresses fall in
MaxCalls == 3       \* longest series of calls made on a Tlb on its own

\* ------------------------------------------------------------- constants
\* usize::MAX: the `oldest_time` seed of fifo and the `page_frame_idx` seed
\* of the driver.  Every index of the model is far below it.
USIZE_MAX == 2147483647

\* Option::None of Iterator::position and of the inner scans.
None == -1

\* The addresses an input line can hold: one address in each page p, with
\* offset 60 * p.
AddrSet == {256 * p + 60 * p : p \in 1..NumPages}

\* The page sizes explored: the default of cli.rs and a smaller one.
PageSizes == {128, 256}

\* The lengths of BACKING_STORE.bin explored, in bytes: 256 pages of 256
\* bytes, and a file cut short after 512 bytes.
StoreLens == {512, 256 * 256}

Algorithms == {"FIFO", "LRU", "OPT"}

VARIABLES
    frames,               \* args.frames
    pra,                  \* args.pra
    tlb_entries,          \* args.tlb_entries
    debug,                \* args.debug
    page_size,            \* args.page_size
    store_len,            \* length of BACKING_STORE.bin in bytes
    contents,             \* the lines of the address file
    page_numbers_zipped,  \* (logical address, page number, offset) per line
    ram_frames,           \* the page table: sequence of PageTableEntry
    tlb,                  \* Tlb.entries, in insertion order (front first)
    tlb_misses,
    page_faults,
    i,                    \* index of the next address of the for loop
    page_frame_idx,       \* frame index printed for the last address
    hits,                 \* `hits` of print_statistics
    rates,                \* the two rates print_statistics prints
    trace,                \* the lines printed, one per address fetched
    pc,                   \* "loop", "done" or "panicked"
    hist,                 \* history: what each processed address found
    calls                 \* history: the calls made on a Tlb on its own

vars == <<frames, pra, tlb_entries, debug, page_size, store_len, contents,
          page_numbers_zipped, ram_frames, tlb, tlb_misses, page_faults, i,
          page_frame_idx, hits, rates, trace, pc, hist, calls>>

\* ------------------------------------------------------- address parsing
\* A line of the address file: the text of a decimal address, or text that
\* string.parse() refuses.
Line(address) == [parsable |-> TRUE, value |-> address]

BadLine == [parsable |-> FALSE, value |-> 0]

\* .map(|address| (address, (address >> 8usize) & 0xFF, address & 0xFF))
split_address(address) ==
    <<address, (address \div 256) % 256, address % 256>>

\* contents.split('\n').filter_map(|string| string.parse().ok()).map(..)
parse_lines(lines) ==
    LET parsed == SelectSeq(lines, LAMBDA l : l.parsable)
    IN  [k \in 1..Len(parsed) |-> split_address(parsed[k].value)]

\* page_numbers_zipped.iter().map(|(_, pn, _)| *pn).collect()
page_numbers ==
    [k \in 1..Len(page_numbers_zipped) |-> page_numbers_zipped[k][2]]

\* ------------------------------------------------------------------- Tlb
\* LinkedHashSet::pop_front: drops the oldest entry, nothing when empty.
pop_back(entries) ==
    IF Len(entries) = 0 THEN entries ELSE SubSeq(entries, 1, Len(entries) - 1)

pop_front(entries) ==
    IF Len(entries) = 0 THEN entries ELSE Tail(entries)

\* LinkedHashSet::remove: drops pn if present, keeps the others' order.
linked_remove(entries, pn) ==
    SelectSeq(entries, LAMBDA e : e # pn)

\* LinkedHashSet::insert: places pn at the end of the ordering, whether or
\* not it was present.
linked_insert(entries, pn) ==
    Append(linked_remove(entries, pn), pn)

\* Tlb::contains
TlbContains_never(entries, pn) ==
    FALSE

TlbContains(entries, pn) ==
    \E k \in 1..Len(entries) : entries[k] = pn

\* Tlb::push
TlbPush_pop_after_insert(entries, max_size, pn) ==
    LET inserted == linked_insert(entries, pn)
    IN  IF Len(inserted) = max_size THEN pop_front(inserted) ELSE inserted

TlbPush(entries, max_size, pn) ==
    linked_insert(IF Len(entries) = max_size THEN pop_front(entries)
                                             ELSE entries, pn)

\* Tlb::remove
TlbRemove_noop(entries, pn) ==
    entries

TlbRemove(entries, pn) ==
    linked_remove(entries, pn)

\* ------------------------------------------------------------ page table
\* ram_frames.iter().position(|entry| entry.pn == page_number)
position_first_slot_only(ram, page_number) ==
    IF Len(ram) > 0 /\ ram[1].pn = page_number THEN 0 ELSE None

position(ram, page_number) ==
    IF \E s \in 0..(Len(ram) - 1) : ram[s + 1].pn = page_number
    THEN CHOOSE s \in 0..(Len(ram) - 1) :
            /\ ram[s + 1].pn = page_number
            /\ \A t \in 0..(s - 1) : ram[t + 1].pn # page_number
    ELSE None

\* Vec::with_capacity(args.frames): the capacity of ram_frames.
capacity == frames

\* ram_frames.len() < ram_frames.capacity()
has_free_frame_off_by_one(ram) ==
    Len(ram) <= capacity

has_free_frame(ram) ==
    Len(ram) < capacity

\* eject: overwrite slot replace_idx with the page of present_idx; indexing
\* past the end of ram_frames panics before anything is written.
eject_returns_new_pn(ram, all_pns, present_idx, replace_idx) ==
    IF replace_idx >= Len(ram)
    THEN [panic |-> TRUE, ejected_pn |-> None, ram_frames |-> ram]
    ELSE [panic |-> FALSE,
          ejected_pn |-> all_pns[present_idx + 1],
          ram_frames |-> [ram EXCEPT ![replace_idx + 1] =
                            [insertion_time |-> present_idx,
                             pn |-> all_pns[present_idx + 1]]]]

eject(ram, all_pns, present_idx, replace_idx) ==
    IF replace_idx >= Len(ram)
    THEN [panic |-> TRUE, ejected_pn |-> None, ram_frames |-> ram]
    ELSE [panic |-> FALSE,
          ejected_pn |-> ram[replace_idx + 1].pn,
          ram_frames |-> [ram EXCEPT ![replace_idx + 1] =
                            [insertion_time |-> present_idx,
                             pn |-> all_pns[present_idx + 1]]]]

\* What an algorithm returns: (slot, ejected page) and the updated table.
algorithm_result(idx, ej) ==
    [panic |-> ej.panic, frame_idx |-> idx,
     ejected_pn |-> ej.ejected_pn, ram_frames |-> ej.ram_frames]

\* --- fifo
RECURSIVE fifo_scan(_, _, _, _)
fifo_scan(ram, idx, oldest_time, oldest_idx) ==
    IF idx >= Len(ram) THEN oldest_idx
    ELSE IF ram[idx + 1].insertion_time < oldest_time
         THEN fifo_scan(ram, idx + 1, ram[idx + 1].insertion_time, idx)
         ELSE fifo_scan(ram, idx + 1, oldest_time, oldest_idx)

RECURSIVE fifo_scan_newest(_, _, _, _)
fifo_scan_newest(ram, idx, newest_time, newest_idx) ==
    IF idx >= Len(ram) THEN newest_idx
    ELSE IF ram[idx + 1].insertion_time > newest_time
         THEN fifo_scan_newest(ram, idx + 1, ram[idx + 1].insertion_time, idx)
         ELSE fifo_scan_newest(ram, idx + 1, newest_time, newest_idx)

fifo_evicts_newest(ram, all_pns, present_idx) ==
    LET oldest_idx == fifo_scan_newest(ram, 0, -1, 0)
    IN  algorithm_result(oldest_idx,
                         eject(ram, all_pns, present_idx, oldest_idx))

fifo(ram, all_pns, present_idx) ==
    LET oldest_idx == fifo_scan(ram, 0, USIZE_MAX, 0)
    IN  algorithm_result(oldest_idx,
                         eject(ram, all_pns, present_idx, oldest_idx))

\* --- opt
\* all_pns.iter().enumerate().skip(present_idx + 1), left at the first
\* match: the soonest index after present_idx holding pn, or None.
first_future(all_pns, present_idx, pn) ==
    LET S == {k \in (present_idx + 1)..(Len(all_pns) - 1) : all_pns[k + 1] = pn}
    IN  IF S = {} THEN None ELSE CHOOSE k \in S : \A m \in S : k <= m

RECURSIVE opt_scan(_, _, _, _, _, _)
opt_scan(ram, all_pns, present_idx, idx, longest_dist, longest_pn_idx) ==
    IF idx >= Len(ram) THEN longest_pn_idx
    ELSE LET future_idx == first_future(all_pns, present_idx, ram[idx + 1].pn)
         IN  IF future_idx = None
             THEN idx                       \* !found: take it and break
             ELSE IF future_idx - present_idx > longest_dist
                  THEN opt_scan(ram, all_pns, present_idx, idx + 1,
                                future_idx - present_idx, idx)
                  ELSE opt_scan(ram, all_pns, present_idx, idx + 1,
                                longest_dist, longest_pn_idx)

RECURSIVE opt_scan_soonest(_, _, _, _, _, _)
opt_scan_soonest(ram, all_pns, present_idx, idx, best_dist, best_idx) ==
    IF idx >= Len(ram) THEN best_idx
    ELSE LET future_idx == first_future(all_pns, present_idx, ram[idx + 1].pn)
         IN  IF future_idx # None /\ future_idx - present_idx < best_dist
             THEN opt_scan_soonest(ram, all_pns, present_idx, idx + 1,
                                   future_idx - present_idx, idx)
             ELSE opt_scan_soonest(ram, all_pns, present_idx, idx + 1,
                                   best_dist, best_idx)

opt_evicts_soonest(ram, all_pns, present_idx) ==
    IF present_idx = Len(all_pns) - 1
    THEN algorithm_result(0, eject(ram, all_pns, present_idx, 0))
    ELSE LET idx == opt_scan_soonest(ram, all_pns, present_idx, 0, USIZE_MAX, 0)
         IN  algorithm_result(idx, eject(ram, all_pns, present_idx, idx))

RECURSIVE opt_scan_no_break(_, _, _, _, _, _)
opt_scan_no_break(ram, all_pns, present_idx, idx, longest_dist, longest_pn_idx) ==
    IF idx >= Len(ram) THEN longest_pn_idx
    ELSE LET future_idx == first_future(all_pns, present_idx, ram[idx + 1].pn)
         IN  IF future_idx = None
             THEN opt_scan_no_break(ram, all_pns, present_idx, idx + 1,
                                    longest_dist, idx)
             ELSE IF future_idx - present_idx > longest_dist
                  THEN opt_scan_no_break(ram, all_pns, present_idx, idx + 1,
                                         future_idx - present_idx, idx)
                  ELSE opt_scan_no_break(ram, all_pns, present_idx, idx + 1,
                                         longest_dist, longest_pn_idx)

opt_no_break(ram, all_pns, present_idx) ==
    IF present_idx = Len(all_pns) - 1
    THEN algorithm_result(0, eject(ram, all_pns, present_idx, 0))
    ELSE LET idx == opt_scan_no_break(ram, all_pns, present_idx, 0, 0, 0)
         IN  algorithm_result(idx, eject(ram, all_pns, present_idx, idx))

opt(ram, all_pns, present_idx) ==
    IF present_idx = Len(all_pns) - 1
    THEN algorithm_result(0, eject(ram, all_pns, present_idx, 0))
    ELSE LET longest_pn_idx == opt_scan(ram, all_pns, present_idx, 0, 0, 0)
         IN  algorithm_result(longest_pn_idx,
                              eject(ram, all_pns, present_idx, longest_pn_idx))

\* --- lru
\* all_pns.iter().enumerate().take(present_idx - 1), left at the first
\* match: the lowest index among 0 .. present_idx - 2 holding pn, or None.
\* (The scan runs only for an occupied slot, hence with present_idx >= 1.)
first_past(all_pns, present_idx, pn) ==
    LET S == {k \in 0..(present_idx - 2) : all_pns[k + 1] = pn}
    IN  IF S = {} THEN None ELSE CHOOSE k \in S : \A m \in S : k <= m

RECURSIVE lru_scan(_, _, _, _, _, _)
lru_scan(ram, all_pns, present_idx, idx, longest_dist, longest_pn_idx) ==
    IF idx >= Len(ram) THEN longest_pn_idx
    ELSE LET past_idx == first_past(all_pns, present_idx, ram[idx + 1].pn)
         IN  IF past_idx # None /\ present_idx - past_idx > longest_dist
             THEN lru_scan(ram, all_pns, present_idx, idx + 1,
                           present_idx - past_idx, idx)
             ELSE lru_scan(ram, all_pns, present_idx, idx + 1,
                           longest_dist, longest_pn_idx)

lru(ram, all_pns, present_idx) ==
    IF present_idx = Len(all_pns) - 1
    THEN algorithm_result(0, eject(ram, all_pns, present_idx, 0))
    ELSE LET longest_pn_idx == lru_scan(ram, all_pns, present_idx, 0, 0, 0)
         IN  algorithm_result(longest_pn_idx,
                              eject(ram, all_pns, present_idx, longest_pn_idx))

\* PageReplacementAlgorithm::algorithm
algorithm(self, ram, all_pns, present_idx) ==
    CASE self = "FIFO" -> fifo(ram, all_pns, present_idx)
      [] self = "LRU"  -> lru(ram, all_pns, present_idx)
      [] self = "OPT"  -> opt(ram, all_pns, present_idx)

\* ---------------------------------------------------------------- driver
\* The address files of up to MaxLen lines drawn from `lines`.
Files(lines) == UNION {[1..n -> lines] : n \in 0..MaxLen}

\* The runs explored, in three families: every algorithm, frame count and
\* TLB size on a well-formed file with the default page size and a whole
\* backing store; ...
ArgsReplacement ==
    /\ frames \in 0..MaxFrames
    /\ pra \in Algorithms
    /\ tlb_entries \in 0..MaxTlb
    /\ debug = FALSE
    /\ page_size = 256
    /\ store_len = 256 * 256
    /\ contents \in Files({Line(a) : a \in AddrSet})

\* ... address files holding lines that do not parse; ...
ArgsInput ==
    /\ frames = MaxFrames
    /\ pra \in Algorithms
    /\ tlb_entries = MaxTlb
    /\ debug = FALSE
    /\ page_size = 256
    /\ store_len = 256 * 256
    /\ contents \in Files({Line(a) : a \in AddrSet} \cup {BadLine})
    /\ \E k \in 1..Len(contents) : ~contents[k].parsable

\* ... and the debug flag, other page sizes and a backing store cut short.
ArgsStore ==
    /\ frames = MaxFrames
    /\ pra = "FIFO"
    /\ tlb_entries = MaxTlb
    /\ debug \in BOOLEAN
    /\ page_size \in PageSizes
    /\ store_len \in StoreLens
    /\ debug \/ page_size # 256 \/ store_len # 256 * 256
    /\ contents \in Files({Line(a) : a \in AddrSet})

NoRates == [printed |-> FALSE,
            page_fault_rate |-> [nan |-> FALSE, thousandths |-> 0],
            tlb_hit_rate |-> [nan |-> FALSE, thousandths |-> 0]]

Init ==
    /\ ArgsReplacement \/ ArgsInput \/ ArgsStore
    /\ page_numbers_zipped = parse_lines(contents)
    /\ ram_frames = <<>>
    /\ tlb = <<>>
    /\ tlb_misses = 0
    /\ page_faults = 0
    /\ i = 0
    /\ page_frame_idx = USIZE_MAX
    /\ hits = 0
    /\ rates = NoRates
    /\ trace = <<>>
    /\ pc = "loop"
    /\ hist = <<>>
    /\ calls = <<>>

\* One pass of the body of `for (i, page_number) in page_numbers`: what the
\* address at index idx does to the page table and the TLB, which counters it
\* bumps, and the page_frame_idx it prints.
process_address(ram, entries, all_pns, idx, self) ==
    LET pn == all_pns[idx + 1]
        same == [outcome |-> "hit", ram_frames |-> ram, tlb |-> entries,
                 miss |-> 0, fault |-> 0, page_frame_idx |-> USIZE_MAX]
    IN  IF TlbContains(entries, pn)
        THEN \* a hit: just get the index
             [same EXCEPT !.page_frame_idx =
                 IF ~debug /\ position(ram, pn) # None
                 THEN position(ram, pn) ELSE USIZE_MAX]
        ELSE IF position(ram, pn) # None
        THEN \* a soft miss: in RAM but not in the TLB
             [same EXCEPT !.outcome = "soft",
                          !.page_frame_idx =
                              IF ~debug THEN position(ram, pn) ELSE USIZE_MAX,
                          !.tlb = TlbPush(entries, tlb_entries, pn),
                          !.miss = 1]
        ELSE IF has_free_frame(ram)
        THEN \* a hard miss: fill up normally until full
             [outcome |-> "fill",
              ram_frames |-> Append(ram, [insertion_time |-> idx, pn |-> pn]),
              tlb |-> TlbPush(entries, tlb_entries, pn),
              miss |-> 1, fault |-> 1, page_frame_idx |-> Len(ram)]
        ELSE \* a hard miss: eject from the page table using the strategy
             LET r == algorithm(self, ram, all_pns, idx)
             IN  IF r.panic
                 THEN [same EXCEPT !.outcome = "panic"]
                 ELSE [outcome |-> "eject",
                       ram_frames |-> r.ram_frames,
                       tlb |-> TlbPush(TlbRemove(entries, r.ejected_pn),
                                       tlb_entries, pn),
                       miss |-> 1, fault |-> 1,
                       page_frame_idx |-> r.frame_idx]

\* The page faults of the whole loop from index idx on, run with algorithm
\* `self` on the same arguments and address file.
RECURSIVE run_faults(_, _, _, _, _)
run_faults(ram, entries, all_pns, idx, self) ==
    IF idx >= Len(all_pns) THEN 0
    ELSE LET r == process_address(ram, entries, all_pns, idx, self)
         IN  IF r.outcome = "panic" THEN 0
             ELSE r.fault + run_faults(r.ram_frames, r.tlb, all_pns,
                                       idx + 1, self)

\* The page number of the address the loop is at.
page_number == page_numbers[i + 1]

\* What the address finds, recorded before it is processed.
Observe ==
    hist' = Append(hist,
                   [in_tlb   |-> page_number \in {tlb[k] : k \in 1..Len(tlb)},
                    resident |-> page_number \in
                                   {ram_frames[k].pn : k \in 1..Len(ram_frames)}])

Config == <<frames, pra, tlb_entries, debug, page_size, store_len, contents,
            page_numbers_zipped, calls>>

\* What the loop body does with the address at index i.
step == process_address(ram_frames, tlb, page_numbers, i, pra)

\* backing_store.seek(..).is_ok() and read_exact(&mut page): seeking past
\* the end of a file succeeds; reading succeeds when page_size bytes lie at
\* page_number * page_size.
read_exact_ok(pn) ==
    pn * page_size + page_size <= store_len

\* The end of the loop body for the address at index idx: the page fetched
\* and the line printed.  page[offset] panics when offset is past the page.
fetch(idx, frame_idx) ==
    LET logical_address == page_numbers_zipped[idx + 1][1]
        pn == page_numbers_zipped[idx + 1][2]
        offset == page_numbers_zipped[idx + 1][3]
    IN  [read  |-> read_exact_ok(pn),
         panic |-> read_exact_ok(pn) /\ offset >= page_size,
         line  |-> [logical_address |-> logical_address,
                    value_at |-> pn * page_size + offset,
                    page_frame_idx |-> frame_idx]]

InLoop == pc = "loop" /\ i < Len(page_numbers)

\* What the loop body leaves in the page table, the TLB and the counters.
Translated ==
    /\ ram_frames' = step.ram_frames
    /\ tlb' = step.tlb
    /\ tlb_misses' = tlb_misses + step.miss
    /\ page_faults' = page_faults + step.fault
    /\ page_frame_idx' = step.page_frame_idx
    /\ Observe

\* The loop body ran to its end: the state it leaves and the next index.
\* Nothing is printed for a page that could not be read.
Processed ==
    /\ ~fetch(i, step.page_frame_idx).panic
    /\ Translated
    /\ trace' = IF fetch(i, step.page_frame_idx).read
                THEN Append(trace, fetch(i, step.page_frame_idx).line)
                ELSE trace
    /\ i' = i + 1
    /\ UNCHANGED <<Config, hits, rates, pc>>

\* tlb.contains(page_number): a hit
TlbHit ==
    /\ InLoop
    /\ step.outcome = "hit"
    /\ Processed

\* in RAM but not in the TLB: a soft miss
SoftMiss ==
    /\ InLoop
    /\ step.outcome = "soft"
    /\ Processed

\* hard miss while the page table is not full
HardMissFill ==
    /\ InLoop
    /\ step.outcome = "fill"
    /\ Processed

\* hard miss on a full page table: the algorithm ejects a page
HardMissEject ==
    /\ InLoop
    /\ step.outcome = "eject"
    /\ Processed

\* hard miss on a page table of no frames: eject indexes past the end of
\* ram_frames and the program panics
EjectPanic ==
    /\ InLoop
    /\ step.outcome = "panic"
    /\ pc' = "panicked"
    /\ UNCHANGED <<Config, ram_frames, tlb, tlb_misses, page_faults, i,
                   page_frame_idx, hits, rates, trace, hist>>

\* the page was read but is shorter than the offset: page[offset] panics,
\* after the address was translated
OffsetPanic ==
    /\ InLoop
    /\ step.outcome # "panic"
    /\ fetch(i, step.page_frame_idx).panic
    /\ Translated
    /\ pc' = "panicked"
    /\ UNCHANGED <<Config, i, hits, rates, trace>>

\* print_statistics: let hits = addresses - tlb_misses
print_statistics_hits_less_faults(misses, faults, addresses) ==
    addresses - misses - faults

print_statistics_hits(misses, faults, addresses) ==
    addresses - misses

\* `x as f64 / addresses as f64` printed with {:.3}: 0.0 / 0.0 is NaN.
print_statistics_rate(x, addresses) ==
    IF addresses = 0
    THEN [nan |-> TRUE, thousandths |-> 0]
    ELSE [nan |-> FALSE,
          thousandths |-> (2000 * x + addresses) \div (2 * addresses)]

PrintStatistics ==
    /\ pc = "loop"
    /\ i = Len(page_numbers)
    /\ hits' = print_statistics_hits(tlb_misses, page_faults, Len(page_numbers))
    /\ rates' =
          IF debug THEN NoRates
          ELSE [printed |-> TRUE,
                page_fault_rate |->
                    print_statistics_rate(page_faults, Len(page_numbers)),
                tlb_hit_rate |->
                    print_statistics_rate(
                        print_statistics_hits(tlb_misses, page_faults,
                                              Len(page_numbers)),
                        Len(page_numbers))]
    /\ pc' = "done"
    /\ UNCHANGED <<Config, ram_frames, tlb, tlb_misses, page_faults, i,
                   page_frame_idx, trace, hist>>

Next ==
    \/ TlbHit
    \/ SoftMiss
    \/ HardMissFill
    \/ HardMissEject
    \/ EjectPanic
    \/ OffsetPanic
    \/ PrintStatistics

Spec == Init /\ [][Next]_vars

\* ------------------------------------------------------- a Tlb on its own
\* The page numbers of the addresses.
Pages == {split_address(a)[2] : a \in AddrSet}

\* Tlb::new(size), before any call
InitTlb ==
    /\ tlb_entries \in 0..MaxTlb
    /\ tlb = <<>>
    /\ calls = <<>>
    /\ frames = 0
    /\ pra = "FIFO"
    /\ debug = FALSE
    /\ page_size = 256
    /\ store_len = 256 * 256
    /\ contents = <<>>
    /\ page_numbers_zipped = <<>>
    /\ ram_frames = <<>>
    /\ tlb_misses = 0
    /\ page_faults = 0
    /\ i = 0
    /\ page_frame_idx = USIZE_MAX
    /\ hits = 0
    /\ rates = NoRates
    /\ trace = <<>>
    /\ pc = "tlb"
    /\ hist = <<>>

Called(method, pn) ==
    /\ Len(calls) < MaxCalls
    /\ calls' = Append(calls, [method |-> method, pn |-> pn])
    /\ UNCHANGED <<frames, pra, tlb_entries, debug, page_size, store_len,
                   contents, page_numbers_zipped, ram_frames, tlb_misses,
                   page_faults, i, page_frame_idx, hits, rates, trace, pc,
                   hist>>

\* tlb.push(pn), for any page number
CallPush ==
    \E pn \in Pages :
        /\ tlb' = TlbPush(tlb, tlb_entries, pn)
        /\ Called("push", pn)

\* tlb.remove(pn), for any page number
CallRemove ==
    \E pn \in Pages :
        /\ tlb' = TlbRemove(tlb, pn)
        /\ Called("remove", pn)

NextTlb ==
    \/ CallPush
    \/ CallRemove

SpecTlb == InitTlb /\ [][NextTlb]_vars

\* ------------------------------------------------------------ properties
ResidentPages == {ram_frames[k].pn : k \in 1..Len(ram_frames)}

TlbPages == {tlb[k] : k \in 1..Len(tlb)}

\* C1: the page-fault counter equals the number of processed addresses whose
\* page was not in the page table when the address was processed; an address
\* whose page was resident (TLB hit or soft miss) never counts.
C1_FaultsCountNonResident ==
    page_faults = Cardinality({k \in 1..Len(hist) : ~hist[k].resident})

\* a finished run that saw a TLB hit, a soft miss, a fill and an ejection
C1_Witness ==
    /\ pc = "done"
    /\ frames >= 1
    /\ page_faults > frames
    /\ \E k \in 1..Len(hist) : hist[k].in_tlb /\ hist[k].resident
    /\ \E k \in 1..Len(hist) : ~hist[k].in_tlb /\ hist[k].resident

\* C2: the TLB never holds more than tlb_entries page numbers, for every
\* configured tlb_entries, 0 included.
C2_TlbWithinCapacity ==
    Len(tlb) <= tlb_entries

\* C3: the page table never holds more than `frames` entries: it grows only
\* by one slot and only while it has fewer than `frames` entries, and it
\* never shrinks (every other admission overwrites a slot).
C3_TableWithinFrames ==
    [][/\ Len(ram_frames') <= frames'
       /\ Len(ram_frames') >= Len(ram_frames)
       /\ Len(ram_frames') > Len(ram_frames) =>
             /\ Len(ram_frames) < frames
             /\ Len(ram_frames') = Len(ram_frames) + 1
       /\ (page_faults' > page_faults /\ Len(ram_frames) >= frames) =>
             Len(ram_frames') = Len(ram_frames)]_vars

\* a full table that has taken one more admission than it has frames
C3_Witness ==
    /\ frames = 2
    /\ Len(ram_frames) = frames
    /\ page_faults > frames

\* C4: no page number occupies more than one slot of the page table.
C4_NoDuplicateResident ==
    \A s, t \in 1..Len(ram_frames) :
        ram_frames[s].pn = ram_frames[t].pn => s = t

\* a table of two slots after an ejection and a later soft miss
C4_Witness ==
    /\ Len(ram_frames) = 2
    /\ page_faults > frames
    /\ \E k \in (frames + 2)..Len(hist) : ~hist[k].in_tlb /\ hist[k].resident

\* C5: every page number in the TLB is resident in the page table.
C5_TlbSubsetOfResident ==
    TlbPages \subseteq ResidentPages

\* the third page faults on a full table whose two pages both sit in the TLB
C5_Witness ==
    /\ frames = 2
    /\ tlb_entries = 2
    /\ i = 3
    /\ page_faults = 3
    /\ Len(tlb) = 2

\* The slot a step overwrote: the one slot whose entry differs afterwards.
EjectedSlot(before, after) ==
    CHOOSE s \in 0..(Len(before) - 1) : after[s + 1] # before[s + 1]

\* The step is an ejection: a page that is not resident arrives at an
\* occupied full table and is admitted in place of exactly one entry.
Ejection ==
    /\ pc = "loop"
    /\ i < Len(page_numbers)
    /\ page_number \notin ResidentPages
    /\ Len(ram_frames) >= 1
    /\ Len(ram_frames) = frames
    /\ i' = i + 1

OneSlotReplaced ==
    /\ Len(ram_frames') = Len(ram_frames)
    /\ \E s \in 0..(Len(ram_frames) - 1) :
          /\ ram_frames'[s + 1] = [insertion_time |-> i, pn |-> page_number]
          /\ \A t \in 0..(Len(ram_frames) - 1) :
                t # s => ram_frames'[t + 1] = ram_frames[t + 1]

\* C6: FIFO ejects the slot with the smallest insertion_time, the lowest
\* slot on a tie; a reference to a resident page leaves every slot, and so
\* every insertion_time, as it was; frames = 2 and pages 1,2,1,3 end with
\* 3 page faults and pages 2 and 3 resident.
C6_FifoEvictsOldest ==
    [][/\ (pra = "FIFO" /\ Ejection) =>
             /\ OneSlotReplaced
             /\ LET s == EjectedSlot(ram_frames, ram_frames')
                IN  \A t \in 0..(Len(ram_frames) - 1) :
                       \/ ram_frames[s + 1].insertion_time
                             < ram_frames[t + 1].insertion_time
                       \/ /\ ram_frames[s + 1].insertion_time
                                = ram_frames[t + 1].insertion_time
                          /\ s <= t
       /\ (pra = "FIFO" /\ i' = i + 1 /\ page_number \in ResidentPages) =>
             ram_frames' = ram_frames
       /\ (pra = "FIFO" /\ frames = 2 /\ page_numbers = <<1, 2, 1, 3>>
             /\ pc' = "done") =>
             /\ page_faults' = 3
             /\ {ram_frames'[k].pn : k \in 1..Len(ram_frames')} = {2, 3}]_vars

\* FIFO: pages 1,2,1,3 on two frames, run to the end
C6_Witness ==
    /\ pra = "FIFO"
    /\ frames = 2
    /\ page_numbers = <<1, 2, 1, 3>>
    /\ pc = "done"
    /\ page_faults = 3

\* The last index before present_idx at which pn occurs in all_pns.
LastUse(all_pns, present_idx, pn) ==
    CHOOSE k \in 0..(present_idx - 1) :
        /\ all_pns[k + 1] = pn
        /\ \A m \in (k + 1)..(present_idx - 1) : all_pns[m + 1] # pn

\* C7: LRU ejects the resident page whose most recent occurrence before the
\* current index is the farthest in the past.
C7_LruEvictsLeastRecentlyUsed ==
    [][(pra = "LRU" /\ Ejection) =>
          /\ OneSlotReplaced
          /\ LET s == EjectedSlot(ram_frames, ram_frames')
             IN  \A t \in 0..(Len(ram_frames) - 1) :
                    LastUse(page_numbers, i, ram_frames[s + 1].pn)
                       <= LastUse(page_numbers, i, ram_frames[t + 1].pn)]_vars

\* The slots whose page does not occur after present_idx.
NeverUsedAgain(ram, all_pns, present_idx) ==
    {s \in 0..(Len(ram) - 1) :
        \A k \in (present_idx + 1)..(Len(all_pns) - 1) :
            all_pns[k + 1] # ram[s + 1].pn}

\* The first index after present_idx at which pn occurs in all_pns.
NextUse(all_pns, present_idx, pn) ==
    CHOOSE k \in (present_idx + 1)..(Len(all_pns) - 1) :
        /\ all_pns[k + 1] = pn
        /\ \A m \in (present_idx + 1)..(k - 1) : all_pns[m + 1] # pn

\* C8: OPT ejects the lowest slot whose page has no occurrence after the
\* current index (slot 0 at the last index); when every resident page occurs
\* again, it ejects the page whose next occurrence is the farthest away.
C8_OptEvictsFarthestNextUse ==
    [][(pra = "OPT" /\ Ejection) =>
          /\ OneSlotReplaced
          /\ LET s    == EjectedSlot(ram_frames, ram_frames')
                 dead == NeverUsedAgain(ram_frames, page_numbers, i)
             IN  /\ i = Len(page_numbers) - 1 => s = 0
                 /\ dead # {} => s \in dead /\ \A t \in dead : s <= t
                 /\ dead = {} =>
                       \A t \in 0..(Len(ram_frames) - 1) :
                          NextUse(page_numbers, i, ram_frames[t + 1].pn)
                             <= NextUse(page_numbers, i, ram_frames[s + 1].pn)
         ]_vars

\* OPT: pages 1,2,3,1,2 on two frames; at index 2 both resident pages occur
\* again and page 2, whose next use is the farther, has left slot 1
C8_Witness ==
    /\ pra = "OPT"
    /\ frames = 2
    /\ page_numbers = <<1, 2, 3, 1, 2>>
    /\ i = 3
    /\ ram_frames[2].pn = 3

\* C9 (Belady): on the same address file, frames >= 1 and tlb_entries, a run
\* with OPT ends with no more page faults than the run with FIFO or LRU.
C9_OptFaultsAtMostOthers ==
    (pc = "done" /\ frames >= 1) =>
        run_faults(<<>>, <<>>, page_numbers, 0, "OPT") <= page_faults

\* a finished LRU run that OPT beats
C9_Witness ==
    /\ pc = "done"
    /\ pra = "LRU"
    /\ frames >= 1
    /\ run_faults(<<>>, <<>>, page_numbers, 0, "OPT") < page_faults

\* C10: the TLB-miss counter equals the number of processed addresses whose
\* page was not in the TLB when the address was processed, and the reported
\* hit count is the number of addresses minus the TLB misses.
C10_MissesCountTlbAbsent ==
    /\ tlb_misses = Cardinality({k \in 1..Len(hist) : ~hist[k].in_tlb})
    /\ pc = "done" =>
          /\ hits = Len(page_numbers) - tlb_misses
          /\ hits = Cardinality({k \in 1..Len(hist) : hist[k].in_tlb})

\* a finished run with a TLB hit, a soft miss and hard misses
C10_Witness ==
    /\ pc = "done"
    /\ hits >= 1
    /\ page_faults >= 2
    /\ tlb_misses > page_faults

\* C11: the frame index printed for an address is the slot that holds the
\* address's page right after the address is processed, whatever the outcome,
\* the algorithm, tlb_entries and the debug flag.
C11_ReportedFrameHoldsPage ==
    [][Len(trace') > Len(trace) =>
          LET f == trace'[Len(trace')].page_frame_idx
          IN  /\ f < Len(ram_frames')
              /\ ram_frames'[f + 1].pn = page_number]_vars

\* C12: with tlb_entries = 0 every processed address is a TLB miss.
C12_ZeroTlbAlwaysMisses ==
    tlb_entries = 0 =>
        /\ tlb_misses = Len(hist)
        /\ pc = "done" => tlb_misses = Len(page_numbers)

\* C13: push(pn) of a page number already in the TLB leaves the entries and
\* their order as they were, also when the TLB is full.
C13_PushPresentIsNoOp ==
    [][\A pn \in TlbPages :
          (/\ Len(calls') > Len(calls)
           /\ calls'[Len(calls')] = [method |-> "push", pn |-> pn]) =>
             tlb' = tlb]_vars

\* The pass at which page p, now in the TLB, was pushed: its last TLB miss.
InsertedAt(h, p) ==
    CHOOSE k \in 1..Len(h) :
        /\ page_numbers[k] = p /\ ~h[k].in_tlb
        /\ \A m \in (k + 1)..Len(h) : ~(page_numbers[m] = p /\ ~h[m].in_tlb)

\* C14: the TLB evicts in insertion order under every algorithm: its entries
\* are ordered by the pass that pushed them; a push of an absent page onto a
\* full TLB (after the page ejected from the page table, if any, has left
\* it) drops the front entry, the earliest pushed, and nothing else; a TLB
\* hit leaves the entries and their order as they were.
C14_TlbEvictsInInsertionOrder ==
    [][Len(hist') > Len(hist) =>
          LET gone == ResidentPages \ {ram_frames'[k].pn :
                                          k \in 1..Len(ram_frames')}
              mid  == SelectSeq(tlb, LAMBDA e : e \notin gone)
          IN  /\ page_number \in TlbPages => tlb' = tlb
              /\ page_number \notin TlbPages =>
                    /\ (Len(mid) = tlb_entries /\ Len(mid) >= 1) =>
                          tlb' = Append(Tail(mid), page_number)
                    /\ (Len(mid) # tlb_entries \/ Len(mid) = 0) =>
                          tlb' = Append(mid, page_number)
              /\ \A a, b \in 1..Len(tlb') :
                    a < b => InsertedAt(hist', tlb'[a])
                                < InsertedAt(hist', tlb'[b])]_vars

\* three frames and a TLB of two: the third page found the TLB full of the
\* first two, no page left the page table, and the first page left the TLB
C14_Witness ==
    /\ frames = 3
    /\ tlb_entries = 2
    /\ i = 3
    /\ page_faults = 3
    /\ tlb = <<page_numbers[2], page_numbers[3]>>

\* C15: when a line of the address file does not parse, the run stops at the
\* first such line: it processes no address past it and does not finish.
C15_AbortsAtUnparsableLine ==
    (\E k \in 1..Len(contents) : ~contents[k].parsable) =>
        /\ pc # "done"
        /\ \A n \in 1..i : \A k \in 1..n : contents[k].parsable

\* C16: when the page of an address cannot be read from the backing store,
\* the run stops at that address: the loop never goes past it.
C16_AbortsAtFailedFetch ==
    \A k \in 1..i : read_exact_ok(page_numbers[k])

\* C17: on an empty address file every counter is zero and the two rates
\* printed are 0, with no division by zero.
C17_EmptyInputRatesZero ==
    (pc = "done" /\ Len(page_numbers) = 0) =>
        /\ page_faults = 0 /\ tlb_misses = 0 /\ hits = 0
        /\ rates.printed =>
              /\ ~rates.page_fault_rate.nan
              /\ rates.page_fault_rate.thousandths = 0
              /\ ~rates.tlb_hit_rate.nan
              /\ rates.tlb_hit_rate.thousandths = 0

\* C18: every time the driver calls the replacement algorithm at index i,
\* the algorithm picks one occupied slot s, writes (page of i, i) there,
\* returns (s, the page that was in s) and leaves the length and the other
\* slots as they were.
C18_AlgorithmReplacesOneSlot ==
    (/\ InLoop
     /\ page_number \notin TlbPages
     /\ page_number \notin ResidentPages
     /\ Len(ram_frames) >= frames) =>
        LET r == algorithm(pra, ram_frames, page_numbers, i)
        IN  /\ ~r.panic
            /\ r.frame_idx \in 0..(Len(ram_frames) - 1)
            /\ r.ejected_pn = ram_frames[r.frame_idx + 1].pn
            /\ r.ram_frames =
                  [ram_frames EXCEPT ![r.frame_idx + 1] =
                      [insertion_time |-> i, pn |-> page_number]]

\* C19: an address whose page is resident leaves the page table and
\* page_faults as they were; a TLB hit leaves tlb_misses and the TLB as they
\* were too, and a soft miss adds one to tlb_misses and pushes the page.
C19_ResidentPageLeavesTable ==
    [][(i' = i + 1 /\ page_number \in ResidentPages) =>
          /\ ram_frames' = ram_frames
          /\ page_faults' = page_faults
          /\ UNCHANGED <<hits, rates, pc>>
          /\ page_number \in TlbPages =>
                tlb' = tlb /\ tlb_misses' = tlb_misses
          /\ page_number \notin TlbPages =>
                /\ tlb_misses' = tlb_misses + 1
                /\ Len(tlb') >= 1
                /\ tlb'[Len(tlb')] = page_number
                /\ \A k \in 1..(Len(tlb') - 1) :
                      tlb'[k] \in TlbPages /\ tlb'[k] # page_number]_vars

\* a run past a soft miss and a TLB hit
C19_Witness ==
    /\ \E k \in 1..Len(hist) : hist[k].resident /\ ~hist[k].in_tlb
    /\ \E k \in 1..Len(hist) : hist[k].resident /\ hist[k].in_tlb
    /\ pc = "done"

\* C20: the page number and the offset of every address follow page_size:
\* page number = address / page_size, offset = address mod page_size; so the
\* offset lies inside the page_size bytes read.
C20_SplitFollowsPageSize ==
    \A k \in 1..Len(page_numbers_zipped) :
        /\ page_numbers_zipped[k][2] = page_numbers_zipped[k][1] \div page_size
        /\ page_numbers_zipped[k][3] = page_numbers_zipped[k][1] % page_size
        /\ page_numbers_zipped[k][3] < page_size

\* C21: all along a run page_faults <= tlb_misses <= the number of addresses
\* translated so far; tlb_misses and page_faults change only when an address
\* is translated, each by 0 or +1, and never go down; so the hits that
\* print_statistics computes, addresses - tlb_misses, are never below 0.
C21_CountersOrderedAndMonotone ==
    [][/\ page_faults <= tlb_misses
       /\ tlb_misses <= Len(hist)
       /\ Len(hist') \in {Len(hist), Len(hist) + 1}
       /\ tlb_misses' \in {tlb_misses, tlb_misses + 1}
       /\ page_faults' \in {page_faults, page_faults + 1}
       /\ Len(hist') = Len(hist) =>
             tlb_misses' = tlb_misses /\ page_faults' = page_faults
       /\ page_faults' <= tlb_misses'
       /\ tlb_misses' <= Len(hist')
       /\ Len(hist') <= Len(page_numbers)
       /\ pc' = "done" =>
             /\ hits' = Len(page_numbers) - tlb_misses'
             /\ hits' >= 0]_vars

\* a finished run whose three counts are strictly apart
C21_Witness ==
    /\ pc = "done"
    /\ 0 < page_faults
    /\ page_faults < tlb_misses
    /\ tlb_misses < Len(hist)
    /\ hits = Len(hist) - tlb_misses

\* C22: with tlb_entries >= 1 and frames >= 1, right after an address is
\* translated its page is in the page table and in the TLB; so an address
\* with the page number of the address before it is a TLB hit and leaves
\* tlb_misses and page_faults as they were.
C22_SamePageTwiceIsHit ==
    [][(tlb_entries >= 1 /\ frames >= 1 /\ Len(hist') > Len(hist)) =>
          /\ \E k \in 1..Len(tlb') : tlb'[k] = page_number
          /\ \E k \in 1..Len(ram_frames') : ram_frames'[k].pn = page_number
          /\ (i >= 1 /\ page_numbers[i] = page_number) =>
                /\ hist'[Len(hist')].in_tlb
                /\ hist'[Len(hist')].resident
                /\ tlb_misses' = tlb_misses
                /\ page_faults' = page_faults]_vars

\* one frame and a TLB of one: after two page faults, the second of which
\* ejected a page and pushed onto the full TLB, the same page came again
C22_Witness ==
    /\ frames = 1
    /\ tlb_entries = 1
    /\ page_faults >= 2
    /\ Len(hist) >= 3
    /\ page_numbers[Len(hist)] = page_numbers[Len(hist) - 1]
    /\ page_numbers[Len(hist) - 1] # page_numbers[Len(hist) - 2]
    /\ hist[Len(hist)].in_tlb

====
